---- MODULE Spec2Model ----
(***************************************************************************)
(* ADH Rigging Tools (rigging_tools.py): the operators' execute methods as *)
(* atomic actions over the part of the host's scene graph they read and    *)
(* write.                                                                  *)
(*                                                                         *)
(*   objects : object id -> [name, type, select, in_scene, modifiers,      *)
(*             key_blocks, vertex_groups, bones, vertices]; objects are    *)
(*             numbered in the order the context lists them, bones maps a  *)
(*             pose bone's name to [select, custom_shape], vertices is the *)
(*             vertex table of a widget's mesh (the indices of its rows)   *)
(*   context : [mode, active_object, active_bone]                          *)
(*   last    : the operator executed last, its result, its property       *)
(*             values and the scene graph it was invoked on                *)
(*                                                                         *)
(* One specification per operator, each starting from the scenes and       *)
(* contexts the operator's poll admits (and some it refuses):              *)
(*   SpecSubsurf       ADH_AddSubdivisionSurfaceModifier                   *)
(*   SpecLattices      ADH_ApplyLattices                                   *)
(*   SpecCopyShapes    ADH_CopyCustomShapes                                *)
(*   SpecCreateShape   ADH_CreateCustomShape                               *)
(*   SpecVertexGroups  ADH_RemoveVertexGroupsUnselectedBones               *)
(*   SpecSameShape     ADH_UseSameCustomShape                              *)
(***************************************************************************)
EXTENDS Naturals, Sequences, FiniteSets, TLC

VARIABLES objects, context, last

vars == <<objects, context, last>>

None == "None"

\* None where an object is expected (objects are numbered from 1).
NoObject == 0

\* Bounds of the model: the longest modifier stack of the subdivision surface
\* scenes, the longest modifier stack and shape key list of the lattice scenes,
\* the most vertex groups of a mesh.
MaxModifiers == 2
MaxStack == 3
MaxKeys == 2
MaxGroups == 3

-----------------------------------------------------------------------------
(* Generic helpers for the host's collections.                             *)

Range(s) == {s[i] : i \in DOMAIN s}

\* All sequences over S of length at most n.
SeqsUpTo(S, n) == UNION {[1..k -> S] : k \in 0..n}

\* The ids of the objects, in the order the context lists them.
ObjectIds(obs) == [i \in 1..Cardinality(DOMAIN obs) |-> i]

NoOperator == [op |-> None, result |-> None, args |-> None, before |-> None]

\* A modifier as the host creates it: shown in the viewport, panel expanded.
Modifier(name, type) ==
    [name |-> name, type |-> type, show_viewport |-> TRUE, show_expanded |-> TRUE]

Object(name, type, select) ==
    [name |-> name, type |-> type, select |-> select, in_scene |-> TRUE,
     modifiers |-> <<>>, key_blocks |-> <<>>, vertex_groups |-> <<>>,
     bones |-> <<>>, vertices |-> <<>>]

\* context.selected_objects: the selected objects of the scene, in scene order.
selected_objects(obs) ==
    SelectSeq(ObjectIds(obs), LAMBDA i : obs[i].in_scene /\ obs[i].select)

\* Names the host hands out: the wanted name, or the first free numbered one.
NameSuffix == <<".001", ".002", ".003", ".004", ".005", ".006", ".007", ".008", ".009">>

\* The i-th name of a family: "Bone", "Bone.001", "Bone.002", ...
NumberedName(base, i) == IF i = 1 THEN base ELSE base \o NameSuffix[i - 1]

UniqueName(base, used) ==
    IF base \notin used THEN base
    ELSE LET k == CHOOSE i \in DOMAIN NameSuffix :
                    /\ (base \o NameSuffix[i]) \notin used
                    /\ \A j \in 1..(i - 1) : (base \o NameSuffix[j]) \in used
         IN  base \o NameSuffix[k]

-----------------------------------------------------------------------------
(* ADH_AddSubdivisionSurfaceModifier                                       *)

AddSubsurf_poll ==
    /\ context.mode = "OBJECT"
    /\ selected_objects(objects) # <<>>

\* obj.modifiers.new(name, type): a new modifier at the end of the stack.
modifiers_new(mods, name, type) ==
    Append(mods, Modifier(UniqueName(name, {m.name : m \in Range(mods)}), type))

\* AddSubsurf_obj as it would be without the test for an existing SUBSURF
\* modifier: every execution adds one.
AddSubsurf_obj_always_new(ob, show_viewport) ==
    LET added == modifiers_new(ob.modifiers, "Subsurf", "SUBSURF")
    IN  [ob EXCEPT !.modifiers =
            [added EXCEPT ![Len(added)] =
                [added[Len(added)] EXCEPT !.show_viewport = show_viewport,
                                          !.show_expanded = FALSE]]]

\* The body of the loop over the meshes, for one mesh.
AddSubsurf_obj(ob, show_viewport) ==
    LET sml == SelectSeq(ob.modifiers, LAMBDA m : m.type = "SUBSURF")
        shown(m) == [m EXCEPT !.show_viewport = show_viewport,
                              !.show_expanded = FALSE]
    IN  IF sml = <<>>
        THEN LET added == modifiers_new(ob.modifiers, "Subsurf", "SUBSURF")
             IN  [ob EXCEPT !.modifiers =
                      [added EXCEPT ![Len(added)] = shown(added[Len(added)])]]
        ELSE [ob EXCEPT !.modifiers =
                  [i \in DOMAIN ob.modifiers |->
                      IF ob.modifiers[i].type = "SUBSURF"
                      THEN shown(ob.modifiers[i])
                      ELSE ob.modifiers[i]]]

AddSubsurf_execute(show_viewport) ==
    /\ AddSubsurf_poll
    /\ LET meshes == SelectSeq(selected_objects(objects),
                               LAMBDA i : objects[i].type = "MESH")
       IN  objects' = [i \in DOMAIN objects |->
                          IF i \in Range(meshes)
                          THEN AddSubsurf_obj(objects[i], show_viewport)
                          ELSE objects[i]]
    /\ last' = [op |-> "add_subsurf_modifier", result |-> "FINISHED",
                args |-> show_viewport, before |-> objects]
    /\ UNCHANGED context

SubsurfTypes == {"SUBSURF", "LATTICE"}

\* A stack of modifiers of the given types, named by their position.
StackOf(types) ==
    [i \in DOMAIN types |-> Modifier(NumberedName("Modifier", i), types[i])]

\* The scenes of the operator: a mesh, an object that is a mesh or a curve, and
\* a curve, each selected or not and with any modifier stack.
InitSubsurf ==
    /\ \E type \in {"MESH", "CURVE"},
          select \in [1..3 -> BOOLEAN],
          stack \in [1..3 -> SeqsUpTo(SubsurfTypes, MaxModifiers)] :
          objects = [i \in 1..3 |->
                        [Object(NumberedName("Object", i),
                                <<"MESH", type, "CURVE">>[i], select[i])
                            EXCEPT !.modifiers = StackOf(stack[i])]]
    /\ context = [mode |-> "OBJECT", active_object |-> NoObject, active_bone |-> None]
    /\ last = NoOperator

NextSubsurf == \E show_viewport \in BOOLEAN : AddSubsurf_execute(show_viewport)

SpecSubsurf == InitSubsurf /\ [][NextSubsurf]_vars

\* The number of SUBSURF modifiers in a modifier stack.
SubsurfCount(mods) == Len(SelectSeq(mods, LAMBDA m : m.type = "SUBSURF"))

\* The objects the operator works on: selected, in the scene, of type MESH.
IsSelectedMesh(ob) == ob.in_scene /\ ob.select /\ ob.type = "MESH"

\* C3 (state part): after execute, a selected mesh that had no SUBSURF modifier
\* has exactly one and a selected mesh that had some has as many as before;
\* every other object (not a mesh, or not selected) has the modifier stack it had.
C3_AfterExecute ==
    last.op = "add_subsurf_modifier" =>
        \A i \in DOMAIN objects :
            LET was == last.before[i].modifiers
                now == objects[i].modifiers
            IN  IF IsSelectedMesh(last.before[i])
                THEN SubsurfCount(now) =
                        (IF SubsurfCount(was) = 0 THEN 1 ELSE SubsurfCount(was))
                ELSE now = was

\* C3 (step part): executing the operator right after an execution of it leaves
\* every object with the number of SUBSURF modifiers it had.
C3_ExecuteAgain ==
    (last.op = "add_subsurf_modifier" /\ last'.op = "add_subsurf_modifier"
        /\ last' # last)
    => \A i \in DOMAIN objects :
           SubsurfCount(objects'[i].modifiers) = SubsurfCount(objects[i].modifiers)

\* C3: ADH_AddSubdivisionSurfaceModifier.execute adds a SUBSURF modifier to a
\* selected mesh only if it has none yet (count 0 -> 1, otherwise unchanged),
\* repeated executions keep the counts of the first, and objects that are not
\* selected meshes get no modifier.
C3_SubsurfOnlyIfNone == [](C3_AfterExecute) /\ [][C3_ExecuteAgain]_vars

\* C3 witness: a second execution in a row (the stack it was invoked on holds
\* the modifier the first execution added) on a scene with a selected mesh that
\* keeps its two SUBSURF modifiers, and a selected object that is no mesh.
C3_Witness ==
    /\ last.op = "add_subsurf_modifier"
    /\ \E i \in DOMAIN objects :
          /\ IsSelectedMesh(objects[i])
          /\ \E k \in DOMAIN last.before[i].modifiers :
                /\ last.before[i].modifiers[k].name = "Subsurf"
                /\ ~last.before[i].modifiers[k].show_expanded
          /\ SubsurfCount(objects[i].modifiers) = 1
    /\ \E i \in DOMAIN objects :
          /\ IsSelectedMesh(objects[i])
          /\ SubsurfCount(last.before[i].modifiers) = 2
          /\ SubsurfCount(objects[i].modifiers) = 2
    /\ \E i \in DOMAIN objects :
          /\ objects[i].select /\ objects[i].type # "MESH"
          /\ objects[i].modifiers = last.before[i].modifiers

-----------------------------------------------------------------------------
(* Iterating one of the host's collections while removing from it.         *)

\* ADH_ApplyLattices and ADH_RemoveVertexGroupsUnselectedBones remove the
\* element a running "for" loop stands on from the very collection the loop
\* iterates (obj.modifiers, obj.vertex_groups). What the iteration does next
\* is not defined by the host's interface: with the element at position k
\* removed, the loop either goes on with the element that followed it (now at
\* position k), or keeps counting and goes on at position k + 1, past that
\* element.
PositionAfterRemove(k) == {k, k + 1}

-----------------------------------------------------------------------------
(* ADH_ApplyLattices                                                       *)

ApplyLattices_poll ==
    /\ context.mode = "OBJECT"
    /\ selected_objects(objects) # <<>>
    /\ context.active_object # NoObject
    /\ objects[context.active_object].type = "MESH"

\* s without its element at position k (1-based).
RemoveAt(s, k) == [j \in 1..(Len(s) - 1) |-> IF j < k THEN s[j] ELSE s[j + 1]]

\* bpy.ops.object.shape_key_remove() with obj.active_shape_key_index = index
\* (0-based): the active shape key leaves the key blocks.
shape_key_remove(key_blocks, index) ==
    IF index + 1 \in DOMAIN key_blocks THEN RemoveAt(key_blocks, index + 1)
    ELSE key_blocks

\* for i in range(len(key_blocks), 0, -1): the steps of the loop from i down.
RECURSIVE RemoveShapeKeys(_, _)
RemoveShapeKeys(key_blocks, i) ==
    IF i = 0 THEN key_blocks
    ELSE RemoveShapeKeys(shape_key_remove(key_blocks, i - 1), i - 1)

\* The position of the first modifier of that name (the host's lookup).
FindByName(mods, name) ==
    CHOOSE k \in DOMAIN mods :
        mods[k].name = name /\ \A j \in 1..(k - 1) : mods[j].name # name

\* bpy.ops.object.modifier_apply(modifier=name): the modifier of that name is
\* applied to the mesh and leaves the stack.
modifier_apply(mods, name) == RemoveAt(mods, FindByName(mods, name))

\* for m in obj.modifiers: the loop standing on position k of the stack; the
\* set of the stacks it can end with.
RECURSIVE ApplyLatticesLoop(_, _)
ApplyLatticesLoop(mods, k) ==
    IF k > Len(mods) THEN {mods}
    ELSE IF mods[k].type # "LATTICE" THEN ApplyLatticesLoop(mods, k + 1)
    ELSE LET applied == modifier_apply(mods, mods[k].name)
         IN  UNION {ApplyLatticesLoop(applied, next) :
                        next \in PositionAfterRemove(k)}

ApplyLattices_execute ==
    /\ ApplyLattices_poll
    /\ LET obj == objects[context.active_object]
           keys == IF obj.key_blocks # <<>>
                   THEN RemoveShapeKeys(obj.key_blocks, Len(obj.key_blocks))
                   ELSE obj.key_blocks
       IN  \E modifiers \in ApplyLatticesLoop(obj.modifiers, 1) :
              objects' = [objects EXCEPT ![context.active_object] =
                             [obj EXCEPT !.key_blocks = keys,
                                         !.modifiers = modifiers]]
    /\ last' = [op |-> "apply_lattices", result |-> "FINISHED",
                args |-> None, before |-> objects]
    /\ UNCHANGED context

\* The types of the modifiers of the lattice scenes.
LatticeTypes == {"LATTICE", "SUBSURF"}

KeyNames == <<"Basis", "Key 1", "Key 2", "Key 3", "Key 4">>

InitLattices ==
    /\ \E stack \in SeqsUpTo(LatticeTypes, MaxStack),
          nkeys \in 0..MaxKeys,
          select \in [1..2 -> BOOLEAN],
          type \in {"MESH", "ARMATURE"} :
          objects = <<[Object("Object", "MESH", select[1])
                         EXCEPT !.modifiers = StackOf(stack),
                                !.key_blocks = SubSeq(KeyNames, 1, nkeys)],
                      Object("Object.001", type, select[2])>>
    /\ \E active \in {NoObject, 1, 2} :
          context = [mode |-> "OBJECT", active_object |-> active,
                     active_bone |-> None]
    /\ last = NoOperator

NextLattices == ApplyLattices_execute

SpecLattices == InitLattices /\ [][NextLattices]_vars

LatticeCount(mods) == Len(SelectSeq(mods, LAMBDA m : m.type = "LATTICE"))

OtherModifiers(mods) == SelectSeq(mods, LAMBDA m : m.type # "LATTICE")

-----------------------------------------------------------------------------
(* Pose mode: the pose bones the context hands to the operators.           *)

\* The armature whose pose the context exposes: the active object, when it is
\* an armature in pose mode; NoObject otherwise.
pose_object ==
    IF /\ context.active_object # NoObject
       /\ objects[context.active_object].type = "ARMATURE"
       /\ context.mode = "POSE"
    THEN context.active_object
    ELSE NoObject

\* context.selected_pose_bones, as the set of the bones' names (bone names are
\* unique in an armature); it is None exactly when pose_object is NoObject.
selected_pose_bones ==
    IF pose_object = NoObject THEN {}
    ELSE {b \in DOMAIN objects[pose_object].bones :
             objects[pose_object].bones[b].select}

\* context.active_pose_bone, as the bone's name; None when there is none.
active_pose_bone ==
    IF pose_object = NoObject THEN None ELSE context.active_bone

\* A pose bone as the host creates it.
Bone(select, custom_shape) == [select |-> select, custom_shape |-> custom_shape]

-----------------------------------------------------------------------------
(* ADH_RemoveVertexGroupsUnselectedBones                                   *)

\* context.selected_pose_bones != None
RemoveVertexGroups_poll == pose_object # NoObject

\* for vg in obj.vertex_groups: the loop standing on position k of the
\* object's vertex groups; the set of the group lists it can end with.
RECURSIVE RemoveVertexGroupsLoop(_, _, _)
RemoveVertexGroupsLoop(groups, k, bone_names) ==
    IF k > Len(groups) THEN {groups}
    ELSE IF groups[k] \in bone_names
         THEN RemoveVertexGroupsLoop(groups, k + 1, bone_names)
         ELSE LET removed == RemoveAt(groups, k)
              IN  UNION {RemoveVertexGroupsLoop(removed, next, bone_names) :
                            next \in PositionAfterRemove(k)}

RemoveVertexGroups_execute ==
    /\ RemoveVertexGroups_poll
    /\ LET bone_names == selected_pose_bones
           affected_objects == SelectSeq(selected_objects(objects),
                                         LAMBDA i : objects[i].type = "MESH")
           ends(i) == IF i \in Range(affected_objects)
                      THEN RemoveVertexGroupsLoop(objects[i].vertex_groups, 1,
                                                  bone_names)
                      ELSE {objects[i].vertex_groups}
       IN  \E groups \in [DOMAIN objects -> UNION {ends(i) : i \in DOMAIN objects}] :
              /\ \A i \in DOMAIN objects : groups[i] \in ends(i)
              /\ objects' = [i \in DOMAIN objects |->
                                [objects[i] EXCEPT !.vertex_groups = groups[i]]]
    /\ last' = [op |-> "remove_vertex_groups_unselected_bones",
                result |-> "FINISHED", args |-> None, before |-> objects]
    /\ UNCHANGED context

BoneNames == {"Bone", "Bone.001"}

\* The names of the vertex groups of the scenes: one per bone, and one of no bone.
GroupNames == BoneNames \cup {"Group"}

\* The lists of vertex groups a mesh can have: names are unique in an object.
GroupLists ==
    {g \in SeqsUpTo(GroupNames, MaxGroups) :
        \A i, j \in DOMAIN g : i # j => g[i] # g[j]}

InitVertexGroups ==
    /\ \E bone_select \in [BoneNames -> BOOLEAN],
          select \in [2..3 -> BOOLEAN],
          type \in {"MESH", "EMPTY"},
          groups \in [2..3 -> GroupLists] :
          objects = <<[Object("Armature", "ARMATURE", TRUE)
                         EXCEPT !.bones = [b \in BoneNames |->
                                              Bone(bone_select[b], NoObject)]],
                      [Object("Object", "MESH", select[2])
                         EXCEPT !.vertex_groups = groups[2]],
                      [Object("Object.001", type, select[3])
                         EXCEPT !.vertex_groups = groups[3]]>>
    /\ context = [mode |-> "POSE", active_object |-> 1, active_bone |-> None]
    /\ last = NoOperator

NextVertexGroups == RemoveVertexGroups_execute

SpecVertexGroups == InitVertexGroups /\ [][NextVertexGroups]_vars

-----------------------------------------------------------------------------
(* ADH_UseSameCustomShape                                                  *)

UseSameShape_poll == active_pose_bone # None

\* The first element of a sequence of object ids that is a mesh, or the
\* default: the loop over context.selected_objects with its break.
RECURSIVE FirstMesh(_, _, _)
FirstMesh(obs, ids, default) ==
    IF ids = <<>> THEN default
    ELSE IF obs[Head(ids)].type = "MESH" THEN Head(ids)
    ELSE FirstMesh(obs, Tail(ids), default)

UseSameShape_execute ==
    /\ UseSameShape_poll
    /\ IF active_pose_bone = None
       THEN /\ last' = [op |-> "use_same_shape", result |-> "CANCELLED",
                        args |-> None, before |-> objects]
            /\ UNCHANGED objects
       ELSE LET rig == objects[pose_object]
                custom_shape ==
                    FirstMesh(objects, selected_objects(objects),
                              rig.bones[active_pose_bone].custom_shape)
            IN  /\ objects' =
                      [objects EXCEPT ![pose_object].bones =
                          [b \in DOMAIN rig.bones |->
                              IF b \in selected_pose_bones
                              THEN [rig.bones[b] EXCEPT !.custom_shape = custom_shape]
                              ELSE rig.bones[b]]]
                /\ last' = [op |-> "use_same_shape", result |-> "FINISHED",
                            args |-> None, before |-> objects]
    /\ UNCHANGED context

InitSameShape ==
    /\ \E bone_select \in [BoneNames -> BOOLEAN],
          shape \in [BoneNames -> {NoObject, 2, 3}],
          select \in [1..3 -> BOOLEAN],
          type \in {"MESH", "EMPTY"} :
          objects = <<[Object("Armature", "ARMATURE", select[1])
                         EXCEPT !.bones = [b \in BoneNames |->
                                              Bone(bone_select[b], shape[b])]],
                      Object("Widget", "MESH", select[2]),
                      Object("Widget.001", type, select[3])>>
    /\ \E bone \in BoneNames \cup {None} :
          context = [mode |-> "POSE", active_object |-> 1, active_bone |-> bone]
    /\ last = NoOperator

NextSameShape == UseSameShape_execute

SpecSameShape == InitSameShape /\ [][NextSameShape]_vars

\* C4: after ADH_UseSameCustomShape.execute has returned FINISHED every
\* selected pose bone has the custom shape the active pose bone had when the
\* operator was invoked, whatever other objects are selected.
C4_ActiveBoneShapeToSelected ==
    (last.op = "use_same_shape" /\ last.result = "FINISHED") =>
        \A b \in selected_pose_bones :
            objects[pose_object].bones[b].custom_shape =
                last.before[pose_object].bones[active_pose_bone].custom_shape

-----------------------------------------------------------------------------
(* ADH_CreateCustomShape                                                   *)

CreateShape_poll ==
    /\ context.mode = "POSE"
    /\ active_pose_bone # None

\* scene.objects: the objects linked to the scene.
scene_objects(obs) == {i \in DOMAIN obs : obs[i].in_scene}

\* create_widget: the scene graph and the object returned (NoObject for None).
\* bpy.data.objects.new names the object uniquely among all objects, those of
\* the scene and the others.
create_widget(obs, widget_prefix, bone_name) ==
    LET obj_name == widget_prefix \o bone_name
    IN  IF obj_name \in {obs[i].name : i \in scene_objects(obs)}
        THEN [objects |-> obs, obj |-> NoObject]
        ELSE LET name == UniqueName(obj_name, {obs[i].name : i \in DOMAIN obs})
             IN  [objects |-> Append(obs, Object(name, "MESH", FALSE)),
                  obj |-> Len(obs) + 1]

\* The number of rows of the vertex table of each widget shape.
WidgetVertices == [sphere |-> 26, ring |-> 12, box |-> 8]

\* create_sphere_widget, create_ring_widget, create_box_widget (the function
\* execute picks by the shape's name): the widget of create_widget, if any,
\* with its mesh filled from the shape's tables.
create_shape_widget(obs, widget_shape, widget_prefix, bone_name) ==
    LET made == create_widget(obs, widget_prefix, bone_name)
    IN  IF made.obj # NoObject
        THEN [made EXCEPT !.objects[made.obj].vertices =
                              [v \in 1..WidgetVertices[widget_shape] |-> v - 1]]
        ELSE made

CreateShape_execute(widget_shape, widget_prefix) ==
    /\ CreateShape_poll
    /\ LET rig == context.active_object
           bone == active_pose_bone
           made == create_shape_widget(objects, widget_shape, widget_prefix, bone)
       IN  objects' = [made.objects EXCEPT
                          ![rig].bones[bone].custom_shape = made.obj]
    /\ last' = [op |-> "create_shape", result |-> "FINISHED",
                args |-> widget_prefix, before |-> objects]
    /\ UNCHANGED context

WidgetShapes == {"sphere", "ring", "box"}
WidgetPrefixes == {"wgt-"}

InitCreateShape ==
    /\ \E bone_select \in [BoneNames -> BOOLEAN],
          shape \in [BoneNames -> {NoObject, 2}],
          select \in [1..2 -> BOOLEAN],
          name \in {"wgt-Bone", "Widget"},
          type \in {"MESH", "EMPTY"} :
          objects = <<[Object("Armature", "ARMATURE", select[1])
                         EXCEPT !.bones = [b \in BoneNames |->
                                              Bone(bone_select[b], shape[b])]],
                      Object(name, type, select[2])>>
    /\ \E bone \in BoneNames \cup {None} :
          context = [mode |-> "POSE", active_object |-> 1, active_bone |-> bone]
    /\ last = NoOperator

NextCreateShape ==
    \E widget_shape \in WidgetShapes, widget_prefix \in WidgetPrefixes :
        CreateShape_execute(widget_shape, widget_prefix)

SpecCreateShape == InitCreateShape /\ [][NextCreateShape]_vars

\* C5: after ADH_CreateCustomShape.execute in pose mode the scene contains a
\* mesh object named widget_prefix followed by the active bone's name and that
\* object is the custom shape of the bone, whichever pose bone is the active
\* one, both when this execution created the object and when an object of
\* that name was in the scene already.
C5_WidgetIsCustomShape ==
    last.op = "create_shape" =>
        \E i \in scene_objects(objects) :
            /\ objects[i].name = last.args \o active_pose_bone
            /\ objects[i].type = "MESH"
            /\ objects[pose_object].bones[active_pose_bone].custom_shape = i

-----------------------------------------------------------------------------
(* ADH_CopyCustomShapes                                                    *)

CopyShapes_poll ==
    /\ Len(selected_objects(objects)) >= 2
    /\ \A i \in Range(selected_objects(objects)) : objects[i].type = "ARMATURE"

\* copy_shape as it would be if a source bone with no custom shape were
\* skipped: the destination bone of its name keeps the shape it had.
copy_shape_unless_none(obs, src_armature, armature, bone_name) ==
    IF /\ bone_name \in DOMAIN obs[armature].bones
       /\ obs[src_armature].bones[bone_name].custom_shape # NoObject
    THEN [obs EXCEPT ![armature].bones[bone_name].custom_shape =
                         obs[src_armature].bones[bone_name].custom_shape]
    ELSE obs

\* armature.pose.bones[bone.name].custom_shape = bone.custom_shape inside
\* try/except: a destination with no bone of that name is left as it is.
copy_shape(obs, src_armature, armature, bone_name) ==
    IF bone_name \in DOMAIN obs[armature].bones
    THEN [obs EXCEPT ![armature].bones[bone_name].custom_shape =
                         obs[src_armature].bones[bone_name].custom_shape]
    ELSE obs

\* for armature in dst_armatures: the inner loop, for one bone of the source.
RECURSIVE CopyShapesToArmatures(_, _, _, _)
CopyShapesToArmatures(obs, src_armature, dst_armatures, bone_name) ==
    IF dst_armatures = <<>> THEN obs
    ELSE CopyShapesToArmatures(
             copy_shape(obs, src_armature, Head(dst_armatures), bone_name),
             src_armature, Tail(dst_armatures), bone_name)

\* for bone in src_armature.pose.bones: the outer loop, over the bones left.
RECURSIVE CopyShapesLoop(_, _, _, _)
CopyShapesLoop(obs, src_armature, dst_armatures, bone_names) ==
    IF bone_names = {} THEN obs
    ELSE LET bone_name == CHOOSE b \in bone_names : TRUE
         IN  CopyShapesLoop(
                 CopyShapesToArmatures(obs, src_armature, dst_armatures, bone_name),
                 src_armature, dst_armatures, bone_names \ {bone_name})

CopyShapes_execute ==
    /\ CopyShapes_poll
    /\ LET src_armature == context.active_object
           selected == selected_objects(objects)
       IN  IF src_armature \notin Range(selected)
           THEN \* dst_armatures.remove(src_armature) raises ValueError
                /\ last' = [op |-> "copy_shapes", result |-> "ERROR",
                            args |-> None, before |-> objects]
                /\ UNCHANGED objects
           ELSE LET dst_armatures == SelectSeq(selected, LAMBDA i : i # src_armature)
                IN  /\ objects' = CopyShapesLoop(objects, src_armature, dst_armatures,
                                                 DOMAIN objects[src_armature].bones)
                    /\ last' = [op |-> "copy_shapes", result |-> "FINISHED",
                                args |-> None, before |-> objects]
    /\ UNCHANGED context

\* The pose bones an armature of the scenes can have, with their custom shapes.
CopyBoneNames == {"Bone", "Bone.001"}
CopyShapeIds == {NoObject, 4, 5}
CopyBones == UNION {[names -> {Bone(FALSE, c) : c \in CopyShapeIds}] :
                        names \in SUBSET CopyBoneNames}

InitCopyShapes ==
    /\ \E bones \in [1..3 -> CopyBones],
          select \in [1..3 -> BOOLEAN],
          type \in {"ARMATURE", "MESH"} :
          /\ type = "MESH" => bones[3] = <<>>
          /\ objects = <<[Object("Armature", "ARMATURE", select[1])
                            EXCEPT !.bones = bones[1]],
                         [Object("Armature.001", "ARMATURE", select[2])
                            EXCEPT !.bones = bones[2]],
                         [Object("Armature.002", type, select[3])
                            EXCEPT !.bones = bones[3]],
                         Object("Widget", "MESH", FALSE),
                         Object("Widget.001", "MESH", FALSE)>>
    /\ \E active \in 0..3 :
          context = [mode |-> "OBJECT", active_object |-> active,
                     active_bone |-> None]
    /\ last = NoOperator

NextCopyShapes == CopyShapes_execute

SpecCopyShapes == InitCopyShapes /\ [][NextCopyShapes]_vars

\* The destinations of the last execution: the selected armatures but the
\* active one.
CopyDestinations ==
    {i \in DOMAIN objects : objects[i].select /\ i # context.active_object}

\* C6: after ADH_CopyCustomShapes.execute with the active armature as source
\* and the other selected armatures as destinations, every destination bone
\* with the name of a source bone has that source bone's custom shape (none
\* when the source bone has none), every other destination bone keeps its
\* custom shape, source bones with no counterpart cause no error (the operator
\* finishes), and the source armature and all other objects are unchanged.
C6_ShapesCopiedByName ==
    (last.op = "copy_shapes" /\ context.active_object # NoObject
        /\ last.before[context.active_object].select) =>
        LET src == context.active_object
            was == last.before
        IN  /\ last.result = "FINISHED"
            /\ \A d \in CopyDestinations :
                  /\ DOMAIN objects[d].bones = DOMAIN was[d].bones
                  /\ \A b \in DOMAIN objects[d].bones :
                        objects[d].bones[b] =
                            (IF b \in DOMAIN was[src].bones
                             THEN [was[d].bones[b] EXCEPT !.custom_shape =
                                       was[src].bones[b].custom_shape]
                             ELSE was[d].bones[b])
            /\ \A i \in DOMAIN objects \ CopyDestinations : objects[i] = was[i]

\* C6 witness: an execution that changed the custom shape of a destination
\* bone to that of the source bone of its name, kept the shape of a
\* destination bone with no bone of its name in the source, and met a source
\* bone with no counterpart in a destination.
C6_Witness ==
    /\ last.op = "copy_shapes" /\ last.result = "FINISHED"
    /\ LET src == context.active_object
           was == last.before
       IN  /\ \E d \in CopyDestinations : \E b \in DOMAIN objects[d].bones :
                 /\ b \in DOMAIN was[src].bones
                 /\ was[d].bones[b].custom_shape # was[src].bones[b].custom_shape
                 /\ objects[d].bones[b].custom_shape = was[src].bones[b].custom_shape
           /\ \E d \in CopyDestinations : \E b \in DOMAIN objects[d].bones :
                 /\ b \notin DOMAIN was[src].bones
                 /\ objects[d].bones[b].custom_shape # NoObject
           /\ \E d \in CopyDestinations : \E b \in DOMAIN was[src].bones :
                 b \notin DOMAIN objects[d].bones

====
